---- MODULE Spec2Model ----
(***************************************************************************)
(* Model of the sentiment-analysis HTTP layer of label-app:                *)
(*   python-api/sentiment_api.py          ternary Flask app                *)
(*   python-api/sentiment_api_binary.py   binary Flask app                 *)
(*   src/pages/api/sentiment/analyze.py   serverless handler               *)
(* One request is handled at a time: a request arrives (Receive), one      *)
(* handler runs to completion and produces the response, and the response  *)
(* is sent and the per-request data discarded (Respond).  noted is what an *)
(* observer noted of one earlier exchange; no handler reads it.  The        *)
(* inference                                                               *)
(* pipeline and Flask's request.get_json() are external collaborators:     *)
(* their outcomes are chosen by the environment.  device_name is the       *)
(* module global of the binary app, set once when the module is loaded;    *)
(* cuda is whether the machine has a usable GPU, torch.cuda.is_available().*)
(***************************************************************************)
EXTENDS Integers, Sequences, FiniteSets, TLC

VARIABLES pc, req, collab, resp, calls, label_mapping, noted, device_name, cuda

vars == <<pc, req, collab, resp, calls, label_mapping, noted, device_name, cuda>>

(***************************************************************************)
(* Bounds of the model.                                                    *)
(***************************************************************************)
\* longest `texts` list sent to /analyze-batch
MaxBatch == 3
\* longest `texts` list sent between two observed /analyze requests
HistoryBatch == 1
\* requests counted between two observed /analyze requests
HistoryBetween == 1
\* confidence scores are fractions score / ScoreScale, so [0,1] is 0..ScoreScale
ScoreScale == 10

(***************************************************************************)
(* Python strings: TLA+ strings with Len, \o and SubSeq.                   *)
(***************************************************************************)
\* the characters str.strip() removes (those occurring in the inputs)
Whitespace == {" ", "\t", "\n"}

RECURSIVE LStrip(_)
LStrip(s) ==
    IF Len(s) > 0 /\ SubSeq(s, 1, 1) \in Whitespace
    THEN LStrip(SubSeq(s, 2, Len(s)))
    ELSE s

RECURSIVE RStrip(_)
RStrip(s) ==
    IF Len(s) > 0 /\ SubSeq(s, Len(s), Len(s)) \in Whitespace
    THEN RStrip(SubSeq(s, 1, Len(s) - 1))
    ELSE s

\* str.strip()
Strip(s) == RStrip(LStrip(s))

\* `sub in s` for two strings
StrContains(s, sub) ==
    \E i \in 1..(Len(s) - Len(sub) + 1) : SubSeq(s, i, i + Len(sub) - 1) = sub

(***************************************************************************)
(* JSON values as Python sees them after parsing.  Every value is a record *)
(* with the same fields: t the type, s the text of a scalar, items the     *)
(* elements of a list, d the members of an object (a function from keys).  *)
(***************************************************************************)
JStr(s) == [t |-> "str", s |-> s, items |-> <<>>, d |-> <<>>]
JInt(s) == [t |-> "int", s |-> s, items |-> <<>>, d |-> <<>>]
JBool(s) == [t |-> "bool", s |-> s, items |-> <<>>, d |-> <<>>]
JNull == [t |-> "NoneType", s |-> "null", items |-> <<>>, d |-> <<>>]
JList(items) == [t |-> "list", s |-> "", items |-> items, d |-> <<>>]
JDict(d) == [t |-> "dict", s |-> "", items |-> <<>>, d |-> d]

\* the result of a Python expression: a value, or an exception with str(e) = msg
Value(v) == [raised |-> FALSE, msg |-> "", val |-> v]
Raised(m) == [raised |-> TRUE, msg |-> m, val |-> JNull]

\* bool(j): the truth value `not data` tests
Truthy(j) ==
    CASE j.t = "NoneType" -> FALSE
      [] j.t = "bool" -> j.s = "true"
      [] j.t = "int" -> j.s # "0"
      [] j.t = "str" -> j.s # ""
      [] j.t = "list" -> j.items # <<>>
      [] j.t = "dict" -> DOMAIN j.d # {}

\* `key in j`: membership in a dict's keys, a list's elements, a string's
\* substrings; TypeError for a value that is no container
PyIn(key, j) ==
    CASE j.t = "dict" -> [raised |-> FALSE, msg |-> "", val |-> key \in DOMAIN j.d]
      [] j.t = "list" ->
            [raised |-> FALSE, msg |-> "",
             val |-> \E i \in 1..Len(j.items) : j.items[i] = JStr(key)]
      [] j.t = "str" -> [raised |-> FALSE, msg |-> "", val |-> StrContains(j.s, key)]
      [] OTHER ->
            [raised |-> TRUE, val |-> FALSE,
             msg |-> "argument of type '" \o j.t \o "' is not iterable"]

\* `j[key]` with a string key
PyGetItem(j, key) ==
    CASE j.t = "dict" ->
            IF key \in DOMAIN j.d THEN Value(j.d[key])
            ELSE Raised("'" \o key \o "'")
      [] j.t = "list" -> Raised("list indices must be integers or slices, not str")
      [] j.t = "str" -> Raised("string indices must be integers, not 'str'")
      [] OTHER -> Raised("'" \o j.t \o "' object is not subscriptable")

\* `j.strip()`: only str has the method
PyStrip(j) ==
    IF j.t = "str" THEN Value(JStr(Strip(j.s)))
    ELSE Raised("'" \o j.t \o "' object has no attribute 'strip'")

\* dict.get(key, default)
DictGet(dict, key, default) ==
    IF key \in DOMAIN dict THEN dict[key] ELSE default

(***************************************************************************)
(* The inference collaborator, sentiment_pipeline(text): it returns a      *)
(* ranked list whose first entry is (label token, score), or it raises.    *)
(* The MockPipeline fallback of the serverless module is one such          *)
(* collaborator: it answers a token of the table and never raises.         *)
(***************************************************************************)
Prediction(label, score) == [kind |-> "ok", label |-> label, score |-> score, msg |-> ""]
Raises(msg) == [kind |-> "raise", label |-> "", score |-> 0, msg |-> msg]

\* tokens the model can emit; LABEL_9 stands for a token outside the table
Tokens == {"LABEL_0", "LABEL_1", "LABEL_2", "LABEL_9"}

Outcomes ==
    {Prediction("LABEL_0", ScoreScale), Prediction("LABEL_1", ScoreScale \div 2),
     Prediction("LABEL_2", 0), Prediction("LABEL_9", ScoreScale \div 2),
     Raises("CUDA out of memory")}

\* one invocation of the collaborator, as recorded in calls
Call(index, text) == [index |-> index, text |-> text]

(***************************************************************************)
(* Responses.                                                              *)
(***************************************************************************)
NoResp == [status |-> 0, body |-> <<>>]
NoReq == [variant |-> "", method |-> "", path |-> "", raw |-> [kind |-> "", value |-> JNull]]

\* (jsonify(body), status) together with the collaborator calls made
Reply(status, body, made) == [status |-> status, body |-> body, calls |-> made]

(***************************************************************************)
(* python-api/sentiment_api.py                                             *)
(***************************************************************************)
LabelMappingTable ==
    [LABEL_0 |-> "positive", LABEL_1 |-> "neutral", LABEL_2 |-> "negative"]

\* label_mapping.get(original_label, 'neutral') with the wrong default
MapLabelDefaultsNegative(mapping, original_label) ==
    DictGet(mapping, original_label, "negative")

\* label_mapping.get(original_label, 'neutral')
MapLabel(mapping, original_label) == DictGet(mapping, original_label, "neutral")

\* the body of a success response reporting the confidence as a percentage
TernaryResultPercent(mapping, out) ==
    LET mapped_label == MapLabel(mapping, out.label) IN
    [label |-> mapped_label,
     confidence |-> out.score * 100,
     original_label |-> out.label,
     scores |-> (mapped_label :> out.score * 100)]

\* the body of a success response
TernaryResult(mapping, out) ==
    LET mapped_label == MapLabel(mapping, out.label) IN
    [label |-> mapped_label,
     confidence |-> out.score,
     original_label |-> out.label,
     scores |-> (mapped_label :> out.score)]

\* request.get_json() of Flask: the parsed body; BadRequest for a body that
\* does not parse; for a Content-Type that is not JSON, None or (newer Flask)
\* UnsupportedMediaType
get_json(raw) ==
    CASE raw.kind = "json" -> {Value(raw.value)}
      [] raw.kind = "invalid" -> {Raised("400 Bad Request")}
      [] raw.kind = "notjson" -> {Value(JNull), Raised("415 Unsupported Media Type")}

\* analyze_sentiment with a second attempt after a failed inference
analyze_sentiment_retrying(mapping, got, c) ==
    IF got.raised THEN Reply(500, [error |-> "Error analyzing sentiment: " \o got.msg], <<>>)
    ELSE
    LET data == got.val
        has == PyIn("text", data)
        item == PyGetItem(data, "text")
        text == item.val
        stripped == PyStrip(text)
        first == <<Call(0, text.s)>>
        twice == <<Call(0, text.s), Call(0, text.s)>>
    IN
    IF ~Truthy(data) THEN Reply(400, [error |-> "No text provided"], <<>>)
    ELSE IF has.raised
    THEN Reply(500, [error |-> "Error analyzing sentiment: " \o has.msg], <<>>)
    ELSE IF ~has.val THEN Reply(400, [error |-> "No text provided"], <<>>)
    ELSE IF item.raised
    THEN Reply(500, [error |-> "Error analyzing sentiment: " \o item.msg], <<>>)
    ELSE IF stripped.raised
    THEN Reply(500, [error |-> "Error analyzing sentiment: " \o stripped.msg], <<>>)
    ELSE IF ~Truthy(stripped.val) THEN Reply(400, [error |-> "Empty text provided"], <<>>)
    ELSE IF c[1].kind = "raise"
    THEN Reply(500, [error |-> "Error analyzing sentiment: " \o c[1].msg], twice)
    ELSE Reply(200, TernaryResult(mapping, c[1]), first)

\* analyze_sentiment(): got is what request.get_json() did, c[1] what the
\* collaborator does when invoked
analyze_sentiment(mapping, got, c) ==
    IF got.raised THEN Reply(500, [error |-> "Error analyzing sentiment: " \o got.msg], <<>>)
    ELSE
    LET data == got.val
        has == PyIn("text", data)
        item == PyGetItem(data, "text")
        text == item.val
        stripped == PyStrip(text)
        made == <<Call(0, text.s)>>
    IN
    IF ~Truthy(data) THEN Reply(400, [error |-> "No text provided"], <<>>)
    ELSE IF has.raised
    THEN Reply(500, [error |-> "Error analyzing sentiment: " \o has.msg], <<>>)
    ELSE IF ~has.val THEN Reply(400, [error |-> "No text provided"], <<>>)
    ELSE IF item.raised
    THEN Reply(500, [error |-> "Error analyzing sentiment: " \o item.msg], <<>>)
    ELSE IF stripped.raised
    THEN Reply(500, [error |-> "Error analyzing sentiment: " \o stripped.msg], <<>>)
    ELSE IF ~Truthy(stripped.val) THEN Reply(400, [error |-> "Empty text provided"], <<>>)
    ELSE IF c[1].kind = "raise"
    THEN Reply(500, [error |-> "Error analyzing sentiment: " \o c[1].msg], made)
    ELSE Reply(200, TernaryResult(mapping, c[1]), made)

\* the loop body of analyze_sentiment_batch numbering records from 1
analyze_batch_item_from_one(mapping, i, text, out) ==
    IF text.t # "str"
    THEN [rec |-> [index |-> i + 1, error |-> "Text must be a string"], calls |-> <<>>]
    ELSE IF ~Truthy(PyStrip(text).val)
    THEN [rec |-> [index |-> i + 1, error |-> "Empty text provided"], calls |-> <<>>]
    ELSE IF out.kind = "raise"
    THEN [rec |-> [index |-> i + 1, error |-> "Error analyzing sentiment: " \o out.msg],
          calls |-> <<Call(i, text.s)>>]
    ELSE [rec |-> ([index |-> i + 1] @@ TernaryResult(mapping, out)),
          calls |-> <<Call(i, text.s)>>]

\* the loop body of analyze_sentiment_batch testing `not text` without strip()
analyze_batch_item_no_strip(mapping, i, text, out) ==
    IF text.t # "str"
    THEN [rec |-> [index |-> i, error |-> "Text must be a string"], calls |-> <<>>]
    ELSE IF ~Truthy(text)
    THEN [rec |-> [index |-> i, error |-> "Empty text provided"], calls |-> <<>>]
    ELSE IF out.kind = "raise"
    THEN [rec |-> [index |-> i, error |-> "Error analyzing sentiment: " \o out.msg],
          calls |-> <<Call(i, text.s)>>]
    ELSE [rec |-> ([index |-> i] @@ TernaryResult(mapping, out)),
          calls |-> <<Call(i, text.s)>>]

\* the loop body of analyze_sentiment_batch trying a failed inference again
analyze_batch_item_retrying(mapping, i, text, out) ==
    IF text.t # "str"
    THEN [rec |-> [index |-> i, error |-> "Text must be a string"], calls |-> <<>>]
    ELSE IF ~Truthy(PyStrip(text).val)
    THEN [rec |-> [index |-> i, error |-> "Empty text provided"], calls |-> <<>>]
    ELSE IF out.kind = "raise"
    THEN [rec |-> [index |-> i, error |-> "Error analyzing sentiment: " \o out.msg],
          calls |-> <<Call(i, text.s), Call(i, text.s)>>]
    ELSE [rec |-> ([index |-> i] @@ TernaryResult(mapping, out)),
          calls |-> <<Call(i, text.s)>>]

\* the body of `for i, text in enumerate(texts)` for one element: the record
\* appended to results and the collaborator calls made
analyze_batch_item(mapping, i, text, out) ==
    IF text.t # "str"
    THEN [rec |-> [index |-> i, error |-> "Text must be a string"], calls |-> <<>>]
    ELSE IF ~Truthy(PyStrip(text).val)
    THEN [rec |-> [index |-> i, error |-> "Empty text provided"], calls |-> <<>>]
    ELSE IF out.kind = "raise"
    THEN [rec |-> [index |-> i, error |-> "Error analyzing sentiment: " \o out.msg],
          calls |-> <<Call(i, text.s)>>]
    ELSE [rec |-> ([index |-> i] @@ TernaryResult(mapping, out)),
          calls |-> <<Call(i, text.s)>>]

\* the loop of analyze_sentiment_batch leaving at the first element that fails
RECURSIVE analyze_batch_loop_aborting(_, _, _, _, _, _)
analyze_batch_loop_aborting(mapping, texts, c, i, results, made) ==
    IF i >= Len(texts) THEN [results |-> results, calls |-> made]
    ELSE LET step == analyze_batch_item(mapping, i, texts[i + 1], c[i + 1]) IN
         IF "error" \in DOMAIN step.rec
         THEN [results |-> Append(results, step.rec), calls |-> made \o step.calls]
         ELSE analyze_batch_loop_aborting(mapping, texts, c, i + 1,
                                          Append(results, step.rec), made \o step.calls)

\* `for i, text in enumerate(texts)`: elements i.. of texts, results so far
RECURSIVE analyze_batch_loop(_, _, _, _, _, _)
analyze_batch_loop(mapping, texts, c, i, results, made) ==
    IF i >= Len(texts) THEN [results |-> results, calls |-> made]
    ELSE LET step == analyze_batch_item(mapping, i, texts[i + 1], c[i + 1]) IN
         analyze_batch_loop(mapping, texts, c, i + 1,
                            Append(results, step.rec), made \o step.calls)

\* analyze_sentiment_batch(): c[i + 1] is what the collaborator does when
\* invoked for element i
analyze_sentiment_batch(mapping, got, c) ==
    IF got.raised
    THEN Reply(500, [error |-> "Error analyzing sentiment batch: " \o got.msg], <<>>)
    ELSE
    LET data == got.val
        has == PyIn("texts", data)
        item == PyGetItem(data, "texts")
        texts == item.val
        done == analyze_batch_loop(mapping, texts.items, c, 0, <<>>, <<>>)
    IN
    IF ~Truthy(data) THEN Reply(400, [error |-> "No texts provided"], <<>>)
    ELSE IF has.raised
    THEN Reply(500, [error |-> "Error analyzing sentiment batch: " \o has.msg], <<>>)
    ELSE IF ~has.val THEN Reply(400, [error |-> "No texts provided"], <<>>)
    ELSE IF item.raised
    THEN Reply(500, [error |-> "Error analyzing sentiment batch: " \o item.msg], <<>>)
    ELSE IF texts.t # "list" THEN Reply(400, [error |-> "Texts must be a list"], <<>>)
    ELSE IF Len(texts.items) = 0
    THEN Reply(400, [error |-> "Empty texts list provided"], <<>>)
    ELSE Reply(200, [results |-> done.results], done.calls)

\* health_check()
health_check ==
    Reply(200, [status |-> "healthy",
                message |-> "Sentiment analysis API is running with IndoBERT"], <<>>)

(***************************************************************************)
(* python-api/sentiment_api_binary.py                                      *)
(***************************************************************************)
original_label_mapping ==
    [LABEL_0 |-> "positive", LABEL_1 |-> "neutral", LABEL_2 |-> "negative"]

binary_label_mapping ==
    [positive |-> "positive", neutral |-> "negative", negative |-> "negative"]

binary_numeric_mapping == [positive |-> 1, negative |-> 0]

\* the binary conversion leaving neutral as it is
BinaryLabelKeepsNeutral(mapped_label) == mapped_label

\* binary_label_mapping.get(mapped_label, 'negative')
BinaryLabel(mapped_label) == DictGet(binary_label_mapping, mapped_label, "negative")

\* binary_numeric_mapping.get(binary_label, 0)
NumericLabel(binary_label) == DictGet(binary_numeric_mapping, binary_label, 0)

\* the body of a success response
BinaryResult(out) ==
    LET mapped_label == DictGet(original_label_mapping, out.label, "neutral")
        binary_label == BinaryLabel(mapped_label)
        numeric_label == NumericLabel(binary_label)
    IN
    [label |-> binary_label,
     numeric_label |-> numeric_label,
     confidence |-> out.score,
     original_label |-> out.label,
     original_mapped_label |-> mapped_label,
     scores |-> (binary_label :> out.score)]

\* analyze_sentiment() of the binary app
analyze_sentiment_binary(got, c) ==
    IF got.raised THEN Reply(500, [error |-> "Error analyzing sentiment: " \o got.msg], <<>>)
    ELSE
    LET data == got.val
        has == PyIn("text", data)
        item == PyGetItem(data, "text")
        text == item.val
        stripped == PyStrip(text)
        made == <<Call(0, text.s)>>
    IN
    IF ~Truthy(data) THEN Reply(400, [error |-> "No text provided"], <<>>)
    ELSE IF has.raised
    THEN Reply(500, [error |-> "Error analyzing sentiment: " \o has.msg], <<>>)
    ELSE IF ~has.val THEN Reply(400, [error |-> "No text provided"], <<>>)
    ELSE IF item.raised
    THEN Reply(500, [error |-> "Error analyzing sentiment: " \o item.msg], <<>>)
    ELSE IF stripped.raised
    THEN Reply(500, [error |-> "Error analyzing sentiment: " \o stripped.msg], <<>>)
    ELSE IF ~Truthy(stripped.val) THEN Reply(400, [error |-> "Empty text provided"], <<>>)
    ELSE IF c[1].kind = "raise"
    THEN Reply(500, [error |-> "Error analyzing sentiment: " \o c[1].msg], made)
    ELSE Reply(200, BinaryResult(c[1]), made)

\* the body of `for i, text in enumerate(texts)` of the binary app
analyze_batch_item_binary(i, text, out) ==
    IF text.t # "str"
    THEN [rec |-> [index |-> i, error |-> "Text must be a string"], calls |-> <<>>]
    ELSE IF ~Truthy(PyStrip(text).val)
    THEN [rec |-> [index |-> i, error |-> "Empty text provided"], calls |-> <<>>]
    ELSE IF out.kind = "raise"
    THEN [rec |-> [index |-> i, error |-> "Error analyzing sentiment: " \o out.msg],
          calls |-> <<Call(i, text.s)>>]
    ELSE [rec |-> ([index |-> i] @@ BinaryResult(out)),
          calls |-> <<Call(i, text.s)>>]

\* `for i, text in enumerate(texts)` of the binary app
RECURSIVE analyze_batch_loop_binary(_, _, _, _, _)
analyze_batch_loop_binary(texts, c, i, results, made) ==
    IF i >= Len(texts) THEN [results |-> results, calls |-> made]
    ELSE LET step == analyze_batch_item_binary(i, texts[i + 1], c[i + 1]) IN
         analyze_batch_loop_binary(texts, c, i + 1,
                                   Append(results, step.rec), made \o step.calls)

\* analyze_sentiment_batch() of the binary app
analyze_sentiment_batch_binary(got, c) ==
    IF got.raised
    THEN Reply(500, [error |-> "Error analyzing sentiment batch: " \o got.msg], <<>>)
    ELSE
    LET data == got.val
        has == PyIn("texts", data)
        item == PyGetItem(data, "texts")
        texts == item.val
        done == analyze_batch_loop_binary(texts.items, c, 0, <<>>, <<>>)
    IN
    IF ~Truthy(data) THEN Reply(400, [error |-> "No texts provided"], <<>>)
    ELSE IF has.raised
    THEN Reply(500, [error |-> "Error analyzing sentiment batch: " \o has.msg], <<>>)
    ELSE IF ~has.val THEN Reply(400, [error |-> "No texts provided"], <<>>)
    ELSE IF item.raised
    THEN Reply(500, [error |-> "Error analyzing sentiment batch: " \o item.msg], <<>>)
    ELSE IF texts.t # "list" THEN Reply(400, [error |-> "Texts must be a list"], <<>>)
    ELSE IF Len(texts.items) = 0
    THEN Reply(400, [error |-> "Empty texts list provided"], <<>>)
    ELSE Reply(200, [results |-> done.results], done.calls)

\* select_device(): the device name for the choice typed at the prompt (a
\* choice other than 1 or 2 is asked again)
select_device(choice, cuda_available, gpu_name) ==
    IF choice = "1" THEN "CPU"
    ELSE IF cuda_available THEN gpu_name
    ELSE "CPU (fallback)"

\* the module-level device selection: device_env is SENTIMENT_DEVICE in lower
\* case, main whether the module runs as a script
module_device_name(device_env, main, choice, cuda_available, gpu_name) ==
    IF device_env = "gpu" /\ cuda_available THEN gpu_name
    ELSE IF device_env = "cpu" THEN "CPU"
    ELSE IF main THEN select_device(choice, cuda_available, gpu_name)
    ELSE IF cuda_available THEN gpu_name
    ELSE "CPU"

\* f"{bytes / 1024**2:.2f} MB": megabytes with two decimals, a tie rounded
\* to the even hundredth
FormatMB(bytes) ==
    LET mb == 1024 * 1024
        whole == bytes \div mb
        rest == (bytes % mb) * 100
        down == rest \div mb
        twice == 2 * (rest % mb)
        up == IF twice > mb \/ (twice = mb /\ down % 2 = 1) THEN 1 ELSE 0
        hundredths == whole * 100 + down + up
        frac == hundredths % 100
    IN ToString(hundredths \div 100) \o "."
         \o (IF frac < 10 THEN "0" ELSE "") \o ToString(frac) \o " MB"

\* health_check() of the binary app; device is the global device_name,
\* available is torch.cuda.is_available() and gpu what torch.cuda reports
health_check_binary(device, available, gpu) ==
    Reply(200, [status |-> "healthy",
                message |-> "Binary sentiment analysis API is running with IndoBERT",
                device_info |->
                    IF available
                    THEN [device |-> device,
                          cuda_available |-> available,
                          cuda_version |-> gpu.version,
                          device_count |-> gpu.count,
                          device_name |-> gpu.name,
                          memory_allocated |-> FormatMB(gpu.allocated),
                          memory_reserved |-> FormatMB(gpu.reserved)]
                    ELSE [device |-> device,
                          cuda_available |-> available],
                classification_type |-> "binary"], <<>>)

(***************************************************************************)
(* src/pages/api/sentiment/analyze.py                                      *)
(***************************************************************************)
\* json.loads(request.body) if request.body else {}, and {} when it raises
parse_body(raw) ==
    IF raw.kind = "json" THEN raw.value ELSE JDict(<<>>)

\* handler(request); the mapping table is the same in both branches of the
\* module's model loading
handler(method, raw, c) ==
    IF method = "OPTIONS" THEN Reply(200, <<>>, <<>>)
    ELSE IF method # "POST" THEN Reply(405, [error |-> "Method not allowed"], <<>>)
    ELSE
    LET body == parse_body(raw)
        has == PyIn("text", body)
        item == PyGetItem(body, "text")
        text == item.val
        stripped == PyStrip(text)
        made == <<Call(0, text.s)>>
        mapped_label == DictGet(LabelMappingTable, c[1].label, "neutral")
    IN
    IF has.raised
    THEN Reply(500, [error |-> "Error analyzing sentiment: " \o has.msg], <<>>)
    ELSE IF ~has.val THEN Reply(400, [error |-> "No text provided"], <<>>)
    ELSE IF item.raised
    THEN Reply(500, [error |-> "Error analyzing sentiment: " \o item.msg], <<>>)
    ELSE IF stripped.raised
    THEN Reply(500, [error |-> "Error analyzing sentiment: " \o stripped.msg], <<>>)
    ELSE IF ~Truthy(stripped.val) THEN Reply(400, [error |-> "Empty text provided"], <<>>)
    ELSE IF c[1].kind = "raise"
    THEN Reply(500, [error |-> "Error analyzing sentiment: " \o c[1].msg], made)
    ELSE Reply(200, [label |-> mapped_label,
                     confidence |-> c[1].score,
                     original_label |-> c[1].label], made)

(***************************************************************************)
(* The requests the environment sends.                                     *)
(***************************************************************************)
\* values of the `text` member of an /analyze body
AnalyzeTexts ==
    {JStr("good text"), JStr(" padded "), JStr(""), JStr(" \t\n"),
     JInt("123"), JNull, JList(<<JStr("a")>>)}

\* JSON documents sent to /analyze
AnalyzeValues ==
    {JNull, JDict(<<>>), JDict([other |-> JStr("x")]),
     JList(<<>>), JList(<<JStr("text")>>), JList(<<JInt("1")>>),
     JInt("0"), JInt("123"), JStr(""), JStr("abc"), JStr("some text"),
     JBool("true"), JBool("false")}
    \cup {JDict([text |-> v]) : v \in AnalyzeTexts}

\* elements of a `texts` list
BatchElements == {JStr("good text"), JStr(""), JStr(" \t"), JInt("123")}

TextLists == UNION {[1..n -> BatchElements] : n \in 0..MaxBatch}

\* JSON documents sent to /analyze-batch
BatchValues ==
    {JNull, JDict(<<>>), JDict([other |-> JStr("x")]),
     JList(<<JStr("texts")>>), JInt("123"), JStr("my texts")}
    \cup {JDict([texts |-> v]) : v \in {JStr("abc"), JInt("5"), JNull, JDict(<<>>)}}
    \cup {JDict([texts |-> JList(l)]) : l \in TextLists}

Json(v) == [kind |-> "json", value |-> v]
\* a body that is empty or does not parse as JSON
Invalid == [kind |-> "invalid", value |-> JNull]
\* a body sent with a Content-Type other than application/json
NotJson == [kind |-> "notjson", value |-> JNull]

Request(variant, method, path, raw) ==
    [variant |-> variant, method |-> method, path |-> path, raw |-> raw]

FlaskVariants == {"ternary", "binary"}

Requests ==
    {Request(v, "GET", "/health", Invalid) : v \in FlaskVariants}
    \cup {Request(v, "POST", "/analyze", raw) :
            v \in FlaskVariants, raw \in {Json(j) : j \in AnalyzeValues} \cup {Invalid, NotJson}}
    \cup {Request(v, "POST", "/analyze-batch", raw) :
            v \in FlaskVariants, raw \in {Json(j) : j \in BatchValues} \cup {Invalid, NotJson}}
    \cup {Request("serverless", m, "/api/sentiment/analyze", raw) :
            m \in {"POST", "GET", "OPTIONS"}, raw \in {Json(j) : j \in AnalyzeValues} \cup {Invalid}}

\* the `texts` list of a batch request, <<>> when it carries none
TextsOf(r) ==
    IF /\ r.raw.kind = "json"
       /\ r.raw.value.t = "dict"
       /\ "texts" \in DOMAIN r.raw.value.d
       /\ r.raw.value.d["texts"].t = "list"
    THEN r.raw.value.d["texts"].items
    ELSE <<>>

\* the element of request r the collaborator would be asked about as its
\* i-th input
InputOf(r, i) ==
    IF r.path = "/analyze-batch" THEN TextsOf(r)[i]
    ELSE IF r.raw.value.t = "dict" /\ "text" \in DOMAIN r.raw.value.d
    THEN r.raw.value.d["text"]
    ELSE JNull

\* what the collaborator would do during a request, one outcome per element
\* of a batch and one for a single analysis: any outcome for an input it can
\* be asked about, and a fixed one for the inputs it is never given
CollabFor(r) ==
    LET n == IF r.path = "/health" THEN 0
             ELSE IF r.path = "/analyze-batch" THEN Len(TextsOf(r))
             ELSE 1
    IN {c \in [1..n -> Outcomes] :
          \A i \in 1..n :
              (InputOf(r, i).t # "str" \/ Strip(InputOf(r, i).s) = "")
                  => c[i] = Raises("CUDA out of memory")}

\* values of SENTIMENT_DEVICE, in lower case
DeviceEnvs == {"", "cpu", "gpu"}

\* choices accepted at the prompt of select_device()
DeviceChoices == {"1", "2"}

\* torch.cuda.get_device_name(0) on a machine with a GPU
GpuName == "Tesla T4"

\* bytes of GPU memory (allocated, reserved) at the time of a health check
GpuMemory == {<<0, 0>>, <<131072, 2097152>>, <<393216, 5767168>>}

\* what torch.cuda reports during a health check
GpuReports ==
    {[version |-> "12.1", count |-> 1, name |-> GpuName,
      allocated |-> m[1], reserved |-> m[2]] : m \in GpuMemory}

\* no exchange has been observed
NoExchange == [req |-> NoReq, collab |-> <<>>, resp |-> NoResp, since |-> 0]

(***************************************************************************)
(* State machine.                                                          *)
(***************************************************************************)
Init ==
    /\ pc = "idle"
    /\ req = NoReq
    /\ collab = <<>>
    /\ resp = NoResp
    /\ calls = <<>>
    /\ label_mapping = LabelMappingTable
    /\ noted = NoExchange
    /\ cuda \in BOOLEAN
    /\ \E device_env \in DeviceEnvs, main \in BOOLEAN, choice \in DeviceChoices :
          device_name = module_device_name(device_env, main, choice, cuda, GpuName)

\* a request arrives
Receive ==
    /\ pc = "idle"
    /\ \E r \in Requests : \E c \in CollabFor(r) :
          /\ req' = r
          /\ collab' = c
    /\ pc' = "pending"
    /\ UNCHANGED <<resp, calls, label_mapping, noted, device_name, cuda>>

\* the handler's return value becomes the response
Return(r) ==
    /\ resp' = [status |-> r.status, body |-> r.body]
    /\ calls' = r.calls
    /\ pc' = "responded"
    /\ UNCHANGED <<req, collab, label_mapping, noted, device_name, cuda>>

HealthCheck ==
    /\ pc = "pending" /\ req.variant = "ternary" /\ req.path = "/health"
    /\ Return(health_check)

AnalyzeSentiment ==
    /\ pc = "pending" /\ req.variant = "ternary" /\ req.path = "/analyze"
    /\ \E got \in get_json(req.raw) :
          Return(analyze_sentiment(label_mapping, got, collab))

\* analyze_sentiment_batch() entering the tokens it met that are outside the
\* table into the shared label_mapping, as negative
AnalyzeSentimentBatchLearning ==
    /\ pc = "pending" /\ req.variant = "ternary" /\ req.path = "/analyze-batch"
    /\ \E got \in get_json(req.raw) :
          LET r == analyze_sentiment_batch(label_mapping, got, collab)
              met == {collab[r.calls[n].index + 1].label : n \in 1..Len(r.calls)} \ {""}
          IN /\ resp' = [status |-> r.status, body |-> r.body]
             /\ calls' = r.calls
             /\ label_mapping' =
                   [t \in DOMAIN label_mapping \cup met |->
                       IF t \in DOMAIN label_mapping THEN label_mapping[t] ELSE "negative"]
    /\ pc' = "responded"
    /\ UNCHANGED <<req, collab, noted, device_name, cuda>>

AnalyzeSentimentBatch ==
    /\ pc = "pending" /\ req.variant = "ternary" /\ req.path = "/analyze-batch"
    /\ \E got \in get_json(req.raw) :
          Return(analyze_sentiment_batch(label_mapping, got, collab))

HealthCheckBinary ==
    /\ pc = "pending" /\ req.variant = "binary" /\ req.path = "/health"
    /\ \E gpu \in GpuReports : Return(health_check_binary(device_name, cuda, gpu))

AnalyzeSentimentBinary ==
    /\ pc = "pending" /\ req.variant = "binary" /\ req.path = "/analyze"
    /\ \E got \in get_json(req.raw) :
          Return(analyze_sentiment_binary(got, collab))

AnalyzeSentimentBatchBinary ==
    /\ pc = "pending" /\ req.variant = "binary" /\ req.path = "/analyze-batch"
    /\ \E got \in get_json(req.raw) :
          Return(analyze_sentiment_batch_binary(got, collab))

Handler ==
    /\ pc = "pending" /\ req.variant = "serverless"
    /\ Return(handler(req.method, req.raw, collab))

\* the response is sent; nothing of the request is kept (the observer counts
\* the requests answered since the exchange it noted)
Respond ==
    /\ pc = "responded"
    /\ pc' = "idle"
    /\ req' = NoReq
    /\ collab' = <<>>
    /\ resp' = NoResp
    /\ calls' = <<>>
    /\ noted' = IF noted # NoExchange /\ noted.since < HistoryBetween
                THEN [noted EXCEPT !.since = @ + 1]
                ELSE noted
    /\ UNCHANGED <<label_mapping, device_name, cuda>>

Next ==
    \/ Receive
    \/ HealthCheck
    \/ AnalyzeSentiment
    \/ AnalyzeSentimentBatch
    \/ HealthCheckBinary
    \/ AnalyzeSentimentBinary
    \/ AnalyzeSentimentBatchBinary
    \/ Handler
    \/ Respond

Spec == Init /\ [][Next]_vars

(***************************************************************************)
(* The same handlers observed over several requests: one answered POST     *)
(* /analyze exchange is kept in noted, any requests follow, and the noted *)
(* request is sent again, to the same or to another deployment variant,    *)
(* the collaborator answering it as it did the first time.                 *)
(***************************************************************************)
Variants == {"ternary", "binary", "serverless"}

\* the path of POST /analyze in a deployment variant
AnalyzePath(variant) ==
    IF variant = "serverless" THEN "/api/sentiment/analyze" ELSE "/analyze"

\* JSON documents sent to /analyze-batch between the observed requests
BatchValuesBetween ==
    {JNull, JDict(<<>>), JList(<<JStr("texts")>>), JInt("123")}
    \cup {JDict([texts |-> v]) : v \in {JStr("abc"), JNull}}
    \cup {JDict([texts |-> JList(l)]) :
            l \in UNION {[1..n -> BatchElements] : n \in 0..HistoryBatch}}

\* requests with a JSON body
RequestsBetween ==
    {Request(v, "GET", "/health", Invalid) : v \in FlaskVariants}
    \cup {Request(v, "POST", "/analyze", Json(j)) : v \in FlaskVariants, j \in AnalyzeValues}
    \cup {Request(v, "POST", "/analyze-batch", Json(j)) :
            v \in FlaskVariants, j \in BatchValuesBetween}
    \cup {Request("serverless", m, "/api/sentiment/analyze", Json(j)) :
            m \in {"POST", "GET", "OPTIONS"}, j \in AnalyzeValues}

\* a request arrives
ReceiveBetween ==
    /\ pc = "idle"
    /\ \E r \in RequestsBetween : \E c \in CollabFor(r) :
          /\ req' = r
          /\ collab' = c
    /\ pc' = "pending"
    /\ UNCHANGED <<resp, calls, label_mapping, noted, device_name, cuda>>

\* the response to a POST /analyze is sent and the exchange noted
Remember ==
    /\ pc = "responded"
    /\ req.method = "POST" /\ req.path = AnalyzePath(req.variant)
    /\ noted = NoExchange
    /\ noted' = [req |-> req, collab |-> collab, resp |-> resp, since |-> 0]
    /\ pc' = "idle"
    /\ req' = NoReq
    /\ collab' = <<>>
    /\ resp' = NoResp
    /\ calls' = <<>>
    /\ UNCHANGED <<label_mapping, device_name, cuda>>

\* the noted request arrives again, at any variant
ReceiveAgain ==
    /\ pc = "idle"
    /\ noted # NoExchange
    /\ \E v \in Variants :
          req' = Request(v, "POST", AnalyzePath(v), noted.req.raw)
    /\ collab' = noted.collab
    /\ pc' = "pending"
    /\ UNCHANGED <<resp, calls, label_mapping, noted, device_name, cuda>>

NextHistory ==
    \/ ReceiveBetween
    \/ HealthCheck
    \/ AnalyzeSentiment
    \/ AnalyzeSentimentBatch
    \/ HealthCheckBinary
    \/ AnalyzeSentimentBinary
    \/ AnalyzeSentimentBatchBinary
    \/ Handler
    \/ Respond
    \/ Remember
    \/ ReceiveAgain

SpecHistory == Init /\ [][NextHistory]_vars

(***************************************************************************)
(* Vocabulary of the properties, stated on requests and responses.         *)
(***************************************************************************)
\* a string that is empty after trimming whitespace
IsBlank(s) == \A i \in 1..Len(s) : SubSeq(s, i, i) \in Whitespace

NonString(e) == e.t # "str"
BlankString(e) == e.t = "str" /\ IsBlank(e.s)
ValidText(e) == e.t = "str" /\ ~IsBlank(e.s)

\* a POST /analyze-batch whose `texts` is a non-empty list has been answered
BatchAnswered ==
    /\ pc = "responded"
    /\ req.path = "/analyze-batch"
    /\ TextsOf(req) # <<>>

\* a POST /analyze has been answered (any deployment variant)
AnalyzeAnswered ==
    /\ pc = "responded"
    /\ req.method = "POST"
    /\ req.path \in {"/analyze", "/api/sentiment/analyze"}

\* the body is a JSON object with a member `text`
HasText(r) ==
    /\ r.raw.kind = "json"
    /\ r.raw.value.t = "dict"
    /\ "text" \in DOMAIN r.raw.value.d

TextOf(r) == r.raw.value.d["text"]

IsSuccess(rec) == "label" \in DOMAIN rec /\ "error" \notin DOMAIN rec
IsError(rec) == "error" \in DOMAIN rec /\ "label" \notin DOMAIN rec

\* C1: a batch of N elements is answered with exactly N records, the record
\* at position i carries index i (from 0) and describes element i: it is a
\* success record carrying the collaborator's answer for element i exactly
\* when element i is a non-blank string for which the collaborator answered,
\* and an error record otherwise.
C1_BatchKeepsLengthAndOrder ==
    BatchAnswered =>
        /\ "results" \in DOMAIN resp.body
        /\ Len(resp.body.results) = Len(TextsOf(req))
        /\ \A i \in 1..Len(TextsOf(req)) :
              LET rec == resp.body.results[i]
                  elem == TextsOf(req)[i]
              IN /\ rec.index = i - 1
                 /\ IF ValidText(elem) /\ collab[i].kind = "ok"
                    THEN /\ IsSuccess(rec)
                         /\ rec.original_label = collab[i].label
                         /\ rec.confidence = collab[i].score
                    ELSE IsError(rec)

\* a full-length batch mixing a non-string, a blank and a failing inference
C1_Witness ==
    /\ BatchAnswered
    /\ Len(TextsOf(req)) >= 3
    /\ Len(resp.body.results) = Len(TextsOf(req))
    /\ \E i, j, k \in 1..Len(TextsOf(req)) :
          /\ NonString(TextsOf(req)[i])
          /\ BlankString(TextsOf(req)[j])
          /\ ValidText(TextsOf(req)[k]) /\ collab[k].kind = "raise"

\* C2: a failing element never aborts the batch: the status is 200, the
\* failure of element i is the error record at index i (with the message
\* "Error analyzing sentiment: <message>" when the inference raised), and
\* every later element is processed: it has its own record, a valid one is
\* passed to the collaborator, and it succeeds when the collaborator answers.
C2_BatchFailureIsolated ==
    BatchAnswered =>
        /\ resp.status = 200
        /\ "error" \notin DOMAIN resp.body
        /\ \A i \in 1..Len(TextsOf(req)) :
              LET elem == TextsOf(req)[i]
                  failed == ~ValidText(elem) \/ collab[i].kind = "raise"
              IN failed =>
                  /\ i <= Len(resp.body.results)
                  /\ IsError(resp.body.results[i])
                  /\ resp.body.results[i].index = i - 1
                  /\ (ValidText(elem) =>
                        resp.body.results[i].error =
                            "Error analyzing sentiment: " \o collab[i].msg)
                  /\ \A j \in (i + 1)..Len(TextsOf(req)) :
                        /\ j <= Len(resp.body.results)
                        /\ resp.body.results[j].index = j - 1
                        /\ (ValidText(TextsOf(req)[j]) =>
                              \E n \in 1..Len(calls) :
                                  calls[n] = Call(j - 1, TextsOf(req)[j].s))
                        /\ (ValidText(TextsOf(req)[j]) /\ collab[j].kind = "ok" =>
                              IsSuccess(resp.body.results[j]))

\* the first element's inference raises and a later element succeeds
C2_Witness ==
    /\ BatchAnswered
    /\ ValidText(TextsOf(req)[1]) /\ collab[1].kind = "raise"
    /\ resp.status = 200
    /\ \E j \in 2..Len(TextsOf(req)) :
          /\ j <= Len(resp.body.results)
          /\ IsSuccess(resp.body.results[j])

\* C3: each element is classified on its own, in this priority: a non-string
\* gives the error record "Text must be a string", a string that is blank
\* after trimming gives "Empty text provided", any other string gives a
\* success record when the inference succeeds; so ["good text", "", 123]
\* gives success, "Empty text provided", "Text must be a string".
C3_BatchClassification ==
    BatchAnswered =>
        /\ "results" \in DOMAIN resp.body
        /\ Len(resp.body.results) = Len(TextsOf(req))
        /\ \A i \in 1..Len(TextsOf(req)) :
              LET rec == resp.body.results[i]
                  elem == TextsOf(req)[i]
              IN /\ NonString(elem) =>
                        rec = [index |-> i - 1, error |-> "Text must be a string"]
                 /\ BlankString(elem) =>
                        rec = [index |-> i - 1, error |-> "Empty text provided"]
                 /\ ValidText(elem) /\ collab[i].kind = "ok" => IsSuccess(rec)
        /\ (/\ TextsOf(req) = <<JStr("good text"), JStr(""), JInt("123")>>
            /\ collab[1].kind = "ok")
           => /\ IsSuccess(resp.body.results[1])
              /\ resp.body.results[2] = [index |-> 1, error |-> "Empty text provided"]
              /\ resp.body.results[3] = [index |-> 2, error |-> "Text must be a string"]

\* the scenario ["good text", "", 123] has been answered
C3_Witness ==
    /\ BatchAnswered
    /\ TextsOf(req) = <<JStr("good text"), JStr(""), JInt("123")>>
    /\ collab[1].kind = "ok"
    /\ resp.status = 200
    /\ Len(resp.body.results) = 3

\* C4: a POST /analyze whose `text` field is missing or blank is answered
\* 400 with "No text provided" (missing) or "Empty text provided" (blank),
\* and the collaborator is not invoked.
C4_MissingOrBlankTextIs400 ==
    (AnalyzeAnswered /\ (~HasText(req) \/ BlankString(TextOf(req)))) =>
        /\ resp.status = 400
        /\ resp.body =
              [error |-> IF HasText(req) THEN "Empty text provided" ELSE "No text provided"]
        /\ calls = <<>>

\* C5: POST /analyze-batch is answered 400 exactly when `texts` is absent
\* ("No texts provided"), not a list ("Texts must be a list") or an empty
\* list ("Empty texts list provided"), and 200 with the per-item results for
\* every other request, never with a top-level error.
C5_Batch400ExactlyForBadTexts ==
    (pc = "responded" /\ req.path = "/analyze-batch") =>
        LET v == req.raw.value
            present == req.raw.kind = "json" /\ v.t = "dict" /\ "texts" \in DOMAIN v.d
            islist == present /\ v.d["texts"].t = "list"
            nonempty == islist /\ v.d["texts"].items # <<>>
        IN /\ ~present =>
                (resp.status = 400 /\ resp.body = [error |-> "No texts provided"])
           /\ (present /\ ~islist) =>
                (resp.status = 400 /\ resp.body = [error |-> "Texts must be a list"])
           /\ (islist /\ ~nonempty) =>
                (resp.status = 400 /\ resp.body = [error |-> "Empty texts list provided"])
           /\ nonempty =>
                (/\ resp.status = 200
                 /\ "results" \in DOMAIN resp.body
                 /\ "error" \notin DOMAIN resp.body)

\* the ternary mapping as the claim states it
TernaryLabelOf(token) ==
    CASE token = "LABEL_0" -> "positive"
      [] token = "LABEL_1" -> "neutral"
      [] token = "LABEL_2" -> "negative"
      [] OTHER -> "neutral"

\* C6: the ternary mapping is total: LABEL_0 gives positive, LABEL_1 neutral,
\* LABEL_2 negative and any other token neutral; whenever the collaborator
\* answers for a valid text the mapping yields a label (it never fails), in
\* /analyze and in every /analyze-batch record, and the mapping table is
\* never changed by any request.
C6_TernaryMappingTotal ==
    /\ label_mapping = LabelMappingTable
    /\ (/\ AnalyzeAnswered
        /\ req.variant \in {"ternary", "serverless"}
        /\ HasText(req) /\ ValidText(TextOf(req))
        /\ collab[1].kind = "ok")
       => /\ resp.status = 200
          /\ resp.body.original_label = collab[1].label
          /\ resp.body.label = TernaryLabelOf(collab[1].label)
    /\ (BatchAnswered /\ req.variant = "ternary") =>
          \A i \in 1..Len(TextsOf(req)) :
              (ValidText(TextsOf(req)[i]) /\ collab[i].kind = "ok") =>
                  /\ i <= Len(resp.body.results)
                  /\ IsSuccess(resp.body.results[i])
                  /\ resp.body.results[i].label = TernaryLabelOf(collab[i].label)

\* the ternary app mapped a token outside the table to neutral
C6_Witness ==
    /\ AnalyzeAnswered
    /\ req.variant = "ternary"
    /\ resp.status = 200
    /\ resp.body.original_label = "LABEL_9"
    /\ resp.body.label = "neutral"
    /\ label_mapping = LabelMappingTable

\* a success record of the binary app
BinaryRecordOk(rec) ==
    /\ rec.label \in {"positive", "negative"}
    /\ rec.original_label \notin {"LABEL_0", "LABEL_2"} => rec.label = "negative"
    /\ rec.numeric_label = 1 <=> rec.label = "positive"
    /\ rec.numeric_label = 0 <=> rec.label = "negative"

\* C7: in the binary app every success result, single or batch, has a label
\* in {positive, negative}: a token mapping to neutral (LABEL_1 or a token
\* outside the table) is reported negative; numeric_label is 1 exactly for
\* positive and 0 exactly for negative.
C7_BinaryLabels ==
    (pc = "responded" /\ req.variant = "binary" /\ resp.status = 200) =>
        /\ req.path = "/analyze" => BinaryRecordOk(resp.body)
        /\ req.path = "/analyze-batch" =>
              \A i \in 1..Len(resp.body.results) :
                  IsSuccess(resp.body.results[i]) => BinaryRecordOk(resp.body.results[i])

\* a batch record of the binary app reports a neutral token as negative
C7_Witness ==
    /\ pc = "responded" /\ req.variant = "binary" /\ resp.status = 200
    /\ req.path = "/analyze-batch"
    /\ \E i \in 1..Len(resp.body.results) :
          /\ IsSuccess(resp.body.results[i])
          /\ resp.body.results[i].original_label = "LABEL_1"
          /\ resp.body.results[i].label = "negative"
          /\ resp.body.results[i].numeric_label = 0

\* C8: when the collaborator raises on a valid text of POST /analyze, the
\* answer is 500 with "Error analyzing sentiment: <the collaborator's
\* message>", and the collaborator was invoked once, not again; no /analyze
\* request invokes it more than once.
C8_InferenceFailureIs500 ==
    AnalyzeAnswered =>
        /\ Len(calls) <= 1
        /\ (HasText(req) /\ ValidText(TextOf(req)) /\ collab[1].kind = "raise") =>
              /\ resp.status = 500
              /\ resp.body = [error |-> "Error analyzing sentiment: " \o collab[1].msg]
              /\ calls = <<Call(0, TextOf(req).s)>>

\* the collaborator raised on a valid text and the answer is 500
C8_Witness ==
    /\ AnalyzeAnswered
    /\ HasText(req) /\ ValidText(TextOf(req))
    /\ collab[1].kind = "raise"
    /\ resp.status = 500
    /\ Len(calls) = 1

\* the application labels of a deployment variant
FixedLabels(variant) ==
    IF variant = "binary" THEN {"positive", "negative"}
    ELSE {"positive", "neutral", "negative"}

\* the response carries a label of the variant and a confidence in [0,1]
CarriesLabelAndConfidence ==
    /\ "label" \in DOMAIN resp.body
    /\ resp.body.label \in FixedLabels(req.variant)
    /\ "confidence" \in DOMAIN resp.body
    /\ resp.body.confidence \in 0..ScoreScale

\* C9 as stated: every POST /analyze whose text is a non-empty string is
\* answered with a label of the fixed set and a confidence in [0,1].
C9_NonEmptyTextGetsLabel ==
    (AnalyzeAnswered /\ HasText(req) /\ TextOf(req).t = "str" /\ TextOf(req).s # "") =>
        CarriesLabelAndConfidence

\* C9 amended: every POST /analyze whose text is a string that is non-empty
\* after trimming, and for which the collaborator returns a prediction, is
\* answered 200 with a label of the fixed set and the collaborator's score as
\* confidence, in [0,1].
C9_ValidTextGetsLabel ==
    (/\ AnalyzeAnswered
     /\ HasText(req) /\ ValidText(TextOf(req))
     /\ collab[1].kind = "ok")
    => /\ resp.status = 200
       /\ CarriesLabelAndConfidence
       /\ resp.body.confidence = collab[1].score

\* a valid text with surrounding whitespace was answered with the top score
C9_Witness ==
    /\ AnalyzeAnswered
    /\ HasText(req) /\ TextOf(req) = JStr(" padded ")
    /\ collab[1].kind = "ok"
    /\ resp.status = 200
    /\ resp.body.confidence = ScoreScale

\* C10: at POST /analyze a request rejected for malformed or missing input
\* (no JSON object, no `text` field, `text` not a string, `text` blank) is
\* answered 400, and 500 is answered only when the collaborator itself
\* failed.
C10_StatusByErrorKind ==
    AnalyzeAnswered =>
        /\ (~HasText(req) \/ NonString(TextOf(req)) \/ BlankString(TextOf(req))) =>
              resp.status = 400
        /\ resp.status = 500 => (calls # <<>> /\ collab[1].kind = "raise")

\* C13: while one /analyze-batch request is handled the collaborator is
\* invoked exactly once for each element that is a non-blank string, with
\* that element's text, in increasing index order, and never for an element
\* that is not a string or is blank; a request answered with a top-level 400
\* invokes it zero times.
C13_CollaboratorCallsPerElement ==
    (pc = "responded" /\ req.path = "/analyze-batch") =>
        /\ resp.status = 400 => calls = <<>>
        /\ \A n \in 1..Len(calls) :
              /\ calls[n].index + 1 \in 1..Len(TextsOf(req))
              /\ ValidText(TextsOf(req)[calls[n].index + 1])
              /\ calls[n].text = TextsOf(req)[calls[n].index + 1].s
              /\ \A m \in 1..(n - 1) : calls[m].index < calls[n].index
        /\ \A i \in 1..Len(TextsOf(req)) :
              ValidText(TextsOf(req)[i]) => \E n \in 1..Len(calls) : calls[n].index = i - 1

\* a batch with two valid elements around one that is not invoked, the first
\* inference raising
C13_Witness ==
    /\ BatchAnswered
    /\ Len(TextsOf(req)) = 3
    /\ ValidText(TextsOf(req)[1]) /\ collab[1].kind = "raise"
    /\ ~ValidText(TextsOf(req)[2])
    /\ ValidText(TextsOf(req)[3])
    /\ calls = <<Call(0, TextsOf(req)[1].s), Call(2, TextsOf(req)[3].s)>>

\* the label and the confidence a response carries, if any
LabelOf(r) == IF "label" \in DOMAIN r.body THEN r.body.label ELSE "none"
ConfidenceOf(r) == IF "confidence" \in DOMAIN r.body THEN r.body.confidence ELSE -1

\* C11: requests are handled independently: when a POST /analyze carries the
\* same text as an earlier one at the same deployment and the collaborator
\* answers it the same way, it gets the same status, label and confidence,
\* whatever /health, /analyze and /analyze-batch requests were handled
\* between the two.
C11_SameTextSameAnswer ==
    (/\ AnalyzeAnswered
     /\ noted # NoExchange
     /\ req.variant = noted.req.variant
     /\ HasText(req) /\ HasText(noted.req)
     /\ TextOf(req) = TextOf(noted.req)
     /\ collab = noted.collab)
    => /\ resp.status = noted.resp.status
       /\ LabelOf(resp) = LabelOf(noted.resp)
       /\ ConfidenceOf(resp) = ConfidenceOf(noted.resp)

\* a valid text is answered a second time after another request was handled
C11_Witness ==
    /\ AnalyzeAnswered
    /\ noted # NoExchange
    /\ noted.since >= 1
    /\ req.variant = noted.req.variant
    /\ HasText(req) /\ ValidText(TextOf(req))
    /\ req.raw = noted.req.raw
    /\ collab = noted.collab
    /\ collab[1].label = "LABEL_9"
    /\ resp.status = 200

\* the error message and the raw label a response carries, if any
ErrorOf(r) == IF "error" \in DOMAIN r.body THEN r.body.error ELSE "none"
OriginalLabelOf(r) ==
    IF "original_label" \in DOMAIN r.body THEN r.body.original_label ELSE "none"

\* the label the binary app reports where the ternary apps report l
Collapsed(l) == IF l = "neutral" THEN "negative" ELSE l

\* C12: POST /analyze has the same contract in every deployment variant: for
\* the same body and the same collaborator outcome the ternary Flask, binary
\* Flask and serverless handlers answer with the same status, error message,
\* original_label and confidence; the ternary and serverless handlers give
\* the same label and the binary handler that label with neutral replaced by
\* negative.
C12_SameContractAcrossVariants ==
    (/\ AnalyzeAnswered
     /\ noted # NoExchange
     /\ req.raw = noted.req.raw
     /\ collab = noted.collab)
    => /\ resp.status = noted.resp.status
       /\ ErrorOf(resp) = ErrorOf(noted.resp)
       /\ OriginalLabelOf(resp) = OriginalLabelOf(noted.resp)
       /\ ConfidenceOf(resp) = ConfidenceOf(noted.resp)
       /\ (req.variant # "binary" /\ noted.req.variant # "binary") =>
              LabelOf(resp) = LabelOf(noted.resp)
       /\ (req.variant = "binary" /\ noted.req.variant # "binary") =>
              LabelOf(resp) = Collapsed(LabelOf(noted.resp))
       /\ (req.variant # "binary" /\ noted.req.variant = "binary") =>
              Collapsed(LabelOf(resp)) = LabelOf(noted.resp)

====
